---- MODULE Spec2Model ----
(***************************************************************************)
(* State-machine model of static/js/dashboard.js: the admin dashboard      *)
(* script (session guard, tabs, product modal, product CRUD, configuration *)
(* form, notification banner).                                             *)
(*                                                                         *)
(* One action per event handler or promise continuation.  The browser runs *)
(* every handler to its next await atomically; a suspended handler is a    *)
(* record in `pending`.  ResponseArrives settles an `await fetch(...)` and *)
(* runs the handler to its end or to its `await response.json()`, where it *)
(* stays in `pending` with the status it received; BodyArrives settles     *)
(* that second await and runs the rest.  Other handlers run in between.    *)
(***************************************************************************)
EXTENDS Integers, Sequences, FiniteSets, TLC

\* ------------------------------------------------------------------ bounds
\* Requests the page issues in one run (caps the request counter nSent).
MaxRequests == 3
\* FileReaders reading at one time.
MaxReaders == 1

\* --------------------------------------------------------- program values
\* JS null / undefined, for ids and for numbers (prices are >= 0, in cents).
null == -1
\* A missing (null / undefined) string property.
NoStr == "<undefined>"
\* setTimeout delay of showMessage, in milliseconds.
Delay == 4000

Ids == {0, 1}

\* String(id), as assigning a number to an input's value does.
IdStr(id) == IF id = 0 THEN "0" ELSE IF id = 1 THEN "1" ELSE "null"

\* JS truthiness of a string-or-missing value and of a number-or-null value.
TruthyStr(s) == s # NoStr /\ s # ""
TruthyNum(n) == n # null /\ n # 0

\* x || y for strings
OrStr(x, y) == IF TruthyStr(x) THEN x ELSE y

\* ------------------------------------------------------------ server data
\* A product record: v = 1 with every field, otherwise with its name only.
ProductOf(id, v) ==
    IF v = 1
    THEN [id |-> id, name |-> "full", description |-> "desc", price |-> 950,
          image |-> "b64"]
    ELSE [id |-> id, name |-> "bare", description |-> NoStr, price |-> null,
          image |-> NoStr]

\* Products the backend may hold: product 0 with image, description and
\* price, product 1 without them.
Products == {ProductOf(0, 1), ProductOf(1, 2)}

\* JSON arrays GET /api/products may return: distinct ids, in id order.
ProductLists ==
    {<<>>} \cup {<<p>> : p \in Products}
           \cup {<<p, q>> : p \in {x \in Products : x.id = 0},
                            q \in {x \in Products : x.id = 1}}

NoConfig == [primary_color |-> NoStr, background_color |-> NoStr,
             product_bg_color |-> NoStr, whatsapp_number |-> NoStr]

Configs ==
    {[primary_color |-> "#111111", background_color |-> "#222222",
      product_bg_color |-> "#333333", whatsapp_number |-> w] :
        w \in {NoStr, "5551234"}}

\* A fetch outcome.  fail: the fetch promise rejects.  type: what
\* response.json() yields: "none" (it rejects: no or non-JSON body), "array",
\* "object".
Resp(status, type, items, detail, cfg) ==
    [fail |-> FALSE, status |-> status, type |-> type, items |-> items,
     detail |-> detail, cfg |-> cfg]

NetFail == [fail |-> TRUE, status |-> 0, type |-> "none", items |-> <<>>,
            detail |-> NoStr, cfg |-> NoConfig]

Obj(status, detail) == Resp(status, "object", <<>>, detail, NoConfig)
NoBody(status) == Resp(status, "none", <<>>, NoStr, NoConfig)

\* response.ok
Ok(r) == r.status >= 200 /\ r.status <= 299

\* What the backend (or the network) may answer to a request of each kind.
Responses(kind) ==
    CASE kind \in {"loadProducts", "editProduct"} ->
           {NetFail, Obj(401, "Not authenticated"), NoBody(500)}
           \cup {Resp(200, "array", l, NoStr, NoConfig) : l \in ProductLists}
      [] kind = "saveProduct" ->
           {NetFail, Obj(200, NoStr), Obj(400, "name taken"), Obj(400, ""),
            Obj(422, NoStr), Obj(401, "Not authenticated"), NoBody(500)}
      [] kind = "deleteProduct" ->
           {NetFail, Obj(200, NoStr), NoBody(204), Obj(401, "Not authenticated"),
            Obj(404, "Not found"), NoBody(500)}
      [] kind = "loadConfig" ->
           {NetFail, NoBody(500)}
           \cup {Resp(200, "object", <<>>, NoStr, c) : c \in Configs}
      [] kind = "saveConfig" ->
           {NetFail, Obj(200, NoStr), Obj(401, "Not authenticated"), NoBody(500)}

\* ------------------------------------------------------------------ state
VARIABLES
    pc,              \* "load": the script has not run yet; "ready": it has
    storedToken,     \* localStorage 'token' (NoStr: absent)
    token,           \* const token, read once at load
    href,            \* window.location.href
    unloaded,        \* the navigation to /login has replaced the page
    currentEditId,   \* let currentEditId
    modalActive,     \* modal.classList has 'active'
    modalTitle,      \* #modalTitle textContent
    form,            \* #productForm inputs: productId, name, description, price
    imageRequired,   \* #productImage .required
    imageFile,       \* #productImage .files[0] chosen (BOOLEAN)
    imagePreview,    \* #imagePreview: [src, display]
    readers,         \* FileReaders still reading a chosen file
    productsList,    \* #productsList innerHTML
    activeBtns,      \* .tab-btn elements (by data-tab) with class 'active'
    activeTabs,      \* .tab-content elements (by tab name) with class 'active'
    configForm,      \* #configForm inputs
    message,         \* #message: [text, className]
    timers,          \* pending setTimeout callbacks: ms left, oldest first
    pending,         \* suspended handlers: the request each one sent and,
                     \* once its fetch resolved, the status it is reading
                     \* the body of (0: still awaiting the fetch)
    nSent,           \* number of fetch calls made so far
    applied,         \* newest request (by issue number) whose list / product
                     \* data has been written to the page, per handler
    last             \* the handler that ran last, with its input

vars == <<pc, storedToken, token, href, unloaded, currentEditId, modalActive,
          modalTitle, form, imageRequired, imageFile, imagePreview,
          readers, productsList, activeBtns, activeTabs, configForm, message, timers,
          pending, nSent, applied, last>>

\* groups, for UNCHANGED
sessionVars == <<storedToken, token, href>>
modalVars == <<currentEditId, modalActive, modalTitle, form, imageRequired,
               imageFile, imagePreview, readers>>
tabVars == <<activeBtns, activeTabs>>
noteVars == <<message, timers>>


\* --------------------------------------------------------------- requests
\* const authHeaders = {'Authorization': `Bearer ${token}`}; a missing token
\* is interpolated as the text "null".
AuthHeadersOf(t) == <<"Authorization", "Bearer", IF t = NoStr THEN "null" ELSE t>>
authHeaders == AuthHeadersOf(token)
NoHeaders == <<>>

NoFormData == [name |-> NoStr, description |-> NoStr, price |-> null,
               image |-> FALSE]

\* A fetch call: the HTTP request, and the closure waiting for it (kind: the
\* awaiting function, id: its parameter).
Request(kind, method, url, headers, id, body) ==
    [seq |-> nSent + 1, kind |-> kind, method |-> method, url |-> url,
     headers |-> headers, id |-> id, body |-> body, status |-> 0]

NoReq == [seq |-> 0, kind |-> "none", method |-> "none", url |-> <<>>,
          headers |-> NoHeaders, id |-> null, body |-> NoFormData, status |-> 0]

\* fetch(...) with the other requests in flight being `rest`.
Fetch(rest, req) ==
    /\ nSent < MaxRequests
    /\ nSent' = nSent + 1
    /\ pending' = rest \cup {req}

NoFetch(rest) ==
    /\ nSent' = nSent
    /\ pending' = rest

\* await response.json(): the handler of r stays suspended, now holding
\* the response whose body it reads.
AwaitJson(r, resp) ==
    /\ nSent' = nSent
    /\ pending' = (pending \ {r}) \cup {[r EXCEPT !.status = resp.status]}

Event(op, req, resp, arg) == [op |-> op, req |-> req, resp |-> resp, arg |-> arg]

\* ---------------------------------------------------------- notifications
\* showMessage with a clearTimeout of the earlier timers before its own.
showMessageCancelsEarlier(text, type) ==
    /\ message' = [text |-> text,
                   className |-> IF type = "success" THEN "message success"
                                 ELSE "message error"]
    /\ timers' = <<Delay>>

\* function showMessage(text, type)
showMessage(text, type) ==
    /\ message' = [text |-> text,
                   className |-> IF type = "success" THEN "message success"
                                 ELSE "message error"]
    /\ timers' = Append(timers, Delay)

\* One second passes; a timer that is due fires before time moves on.
Tick ==
    /\ pc = "ready" /\ ~unloaded
    /\ timers # <<>>
    /\ \A i \in DOMAIN timers : timers[i] > 0
    /\ timers' = [i \in DOMAIN timers |-> timers[i] - 1000]
    /\ last' = Event("tick", NoReq, NetFail, null)
    /\ UNCHANGED <<pc, sessionVars, unloaded, modalVars, productsList, tabVars,
                   configForm, message, pending, nSent, applied>>

\* The setTimeout callback of showMessage: messageDiv.className = 'message'.
TimerFires ==
    /\ pc = "ready" /\ ~unloaded
    /\ timers # <<>> /\ Head(timers) = 0
    /\ timers' = Tail(timers)
    /\ message' = [message EXCEPT !.className = "message"]
    /\ last' = Event("timer", NoReq, NetFail, null)
    /\ UNCHANGED <<pc, sessionVars, unloaded, modalVars, productsList, tabVars,
                   configForm, pending, nSent, applied>>

\* ------------------------------------------------------------ product list
DataUrl(b64) == <<"data:image/jpeg;base64,", b64>>

\* price.toFixed(2), of a price in cents: <<units, hundredths>>
toFixed2(cents) == <<cents \div 100, cents % 100>>
NoPrice == <<null, null>>

\* The card the template of loadProducts renders for product p.
Card(p) ==
    [img |-> DataUrl(p.image), name |-> p.name,
     description |-> IF TruthyStr(p.description) THEN p.description ELSE NoStr,
     price |-> IF TruthyNum(p.price) THEN toFixed2(p.price) ELSE NoPrice,
     editId |-> p.id, deleteId |-> p.id]

\* The rendering with innerHTML += in place of innerHTML =.
RenderListAppends(products) ==
    IF Len(products) = 0
    THEN [placeholder |-> TRUE, cards |-> productsList.cards]
    ELSE [placeholder |-> productsList.placeholder,
          cards |-> productsList.cards
                    \o [i \in DOMAIN products |-> Card(products[i])]]

\* productsList.innerHTML after a response with JSON array `products`.
RenderList(products) ==
    IF Len(products) = 0
    THEN [placeholder |-> TRUE, cards |-> <<>>]
    ELSE [placeholder |-> FALSE,
          cards |-> [i \in DOMAIN products |-> Card(products[i])]]

\* Ids whose Editar / Eliminar buttons are on the page.
EditButtons == {productsList.cards[i].editId : i \in DOMAIN productsList.cards}
DeleteButtons == {productsList.cards[i].deleteId : i \in DOMAIN productsList.cards}

\* async function loadProducts(), up to its await fetch.
loadProducts(rest) ==
    Fetch(rest, Request("loadProducts", "GET", <<"api", "products">>,
                        authHeaders, null, NoFormData))

Max(a, b) == IF a > b THEN a ELSE b

\* loadProducts after its fetch settled with resp: the catch block, the
\* 401 check, or on to await response.json().
loadProductsThen(r, resp) ==
    /\ IF resp.fail
       THEN /\ NoFetch(pending \ {r})
            /\ showMessage("Error al cargar productos", "error")
            /\ UNCHANGED sessionVars
       ELSE IF resp.status = 401
       THEN /\ NoFetch(pending \ {r})
            /\ storedToken' = NoStr
            /\ href' = "/login"
            /\ UNCHANGED <<token, noteVars>>
       ELSE /\ AwaitJson(r, resp)
            /\ UNCHANGED <<sessionVars, noteVars>>
    /\ UNCHANGED <<modalVars, productsList, applied, tabVars, configForm>>

\* The rendering skipped when a newer request has already been rendered.
loadProductsJsonDropsStale(r, resp) ==
    /\ NoFetch(pending \ {r})
    /\ IF r.seq < applied.list
       THEN UNCHANGED <<productsList, applied, noteVars>>
       ELSE IF resp.type # "array"
       THEN /\ showMessage("Error al cargar productos", "error")
            /\ UNCHANGED <<productsList, applied>>
       ELSE /\ productsList' = RenderList(resp.items)
            /\ applied' = [applied EXCEPT !.list = Max(@, r.seq)]
            /\ UNCHANGED noteVars
    /\ UNCHANGED <<sessionVars, modalVars, tabVars, configForm>>

\* loadProducts after its response.json() settled with the body of resp.
loadProductsJson(r, resp) ==
    /\ NoFetch(pending \ {r})
    /\ IF resp.type # "array"
       THEN \* response.json() rejects, or products.map is not a function
            /\ showMessage("Error al cargar productos", "error")
            /\ UNCHANGED <<productsList, applied>>
       ELSE /\ productsList' = RenderList(resp.items)
            /\ applied' = [applied EXCEPT !.list = Max(@, r.seq)]
            /\ UNCHANGED noteVars
    /\ UNCHANGED <<sessionVars, modalVars, tabVars, configForm>>


\* ------------------------------------------------------------------ modal
EmptyForm == [productId |-> "", productName |-> "", productDescription |-> "",
              productPrice |-> null]

\* function closeProductModal()
closeProductModal ==
    /\ modalActive' = FALSE
    /\ UNCHANGED <<currentEditId, modalTitle, form, imageRequired, imageFile,
                   imagePreview, readers>>

\* addBtn.onclick without productId.value = '' (reset() alone leaves a
\* hidden input's value as it is).
AddClickKeepsProductId ==
    /\ pc = "ready" /\ ~unloaded
    /\ currentEditId' = null
    /\ modalTitle' = "Agregar Producto"
    /\ form' = [EmptyForm EXCEPT !.productId = form.productId]
    /\ imageFile' = FALSE
    /\ imagePreview' = [imagePreview EXCEPT !.display = "none"]
    /\ imageRequired' = TRUE
    /\ modalActive' = TRUE
    /\ last' = Event("addClick", NoReq, NetFail, null)
    /\ UNCHANGED <<pc, readers, sessionVars, unloaded, productsList, tabVars, configForm,
                   noteVars, pending, nSent, applied>>

\* addBtn.onclick
AddClick ==
    /\ pc = "ready" /\ ~unloaded
    /\ currentEditId' = null
    /\ modalTitle' = "Agregar Producto"
    /\ form' = EmptyForm                \* form.reset(), productId.value = ''
    /\ imageFile' = FALSE               \* form.reset() empties the file input
    /\ imagePreview' = [imagePreview EXCEPT !.display = "none"]
    /\ imageRequired' = TRUE
    /\ modalActive' = TRUE
    /\ last' = Event("addClick", NoReq, NetFail, null)
    /\ UNCHANGED <<pc, readers, sessionVars, unloaded, productsList, tabVars, configForm,
                   noteVars, pending, nSent, applied>>

\* closeBtn.onclick = closeProductModal (the button is inside the modal)
CloseClick ==
    /\ pc = "ready" /\ ~unloaded
    /\ modalActive
    /\ closeProductModal
    /\ last' = Event("closeClick", NoReq, NetFail, null)
    /\ UNCHANGED <<pc, sessionVars, unloaded, productsList, tabVars, configForm,
                   noteVars, pending, nSent, applied>>

\* window.onclick with e.target === modal (a click on the backdrop)
BackdropClick ==
    /\ pc = "ready" /\ ~unloaded
    /\ modalActive
    /\ closeProductModal
    /\ last' = Event("backdropClick", NoReq, NetFail, null)
    /\ UNCHANGED <<pc, sessionVars, unloaded, productsList, tabVars, configForm,
                   noteVars, pending, nSent, applied>>

\* ---------------------------------------------------------- image preview
\* productImage change handler: with a file chosen it starts a FileReader.
ImageChange(hasFile) ==
    /\ pc = "ready" /\ ~unloaded
    /\ imageFile' = hasFile
    /\ IF hasFile
       THEN readers < MaxReaders /\ readers' = readers + 1
       ELSE readers' = readers
    /\ last' = Event("imageChange", NoReq, NetFail, null)
    /\ UNCHANGED <<pc, sessionVars, unloaded, currentEditId, modalActive,
                   modalTitle, form, imageRequired, imagePreview, productsList,
                   tabVars, configForm, noteVars, pending, nSent, applied>>

\* reader.onload: the preview shows the chosen file.
ReaderLoads ==
    /\ pc = "ready" /\ ~unloaded
    /\ readers > 0
    /\ readers' = readers - 1
    /\ imagePreview' = [src |-> <<"data:", "file">>, display |-> "block"]
    /\ last' = Event("readerLoad", NoReq, NetFail, null)
    /\ UNCHANGED <<pc, sessionVars, unloaded, currentEditId, modalActive,
                   modalTitle, form, imageRequired, imageFile, productsList,
                   tabVars, configForm, noteVars, pending, nSent, applied>>

\* ------------------------------------------------------------ save product
\* The url and method the submit handler picks for edit id `editId`:
\* if (currentEditId) { PUT /api/products/${currentEditId} } else POST.
SaveTarget(editId) ==
    IF TruthyNum(editId)
    THEN [method |-> "PUT", url |-> <<"api", "products", IdStr(editId)>>]
    ELSE [method |-> "POST", url |-> <<"api", "products">>]

\* The FormData the submit handler builds.
FormData ==
    [name |-> form.productName, description |-> form.productDescription,
     price |-> form.productPrice, image |-> imageFile]

\* productForm submit handler, up to its await fetch.
ProductSubmit ==
    /\ pc = "ready" /\ ~unloaded
    /\ LET t == SaveTarget(currentEditId)
           req == Request("saveProduct", t.method, t.url, authHeaders,
                          currentEditId, FormData)
       IN /\ Fetch(pending, req)
          /\ last' = Event("productSubmit", req, NetFail, null)
    /\ UNCHANGED <<pc, sessionVars, unloaded, modalVars, productsList, tabVars,
                   configForm, noteVars, applied>>

\* The notification a non-2xx save response leads to.
SaveFailureMessage(resp) ==
    IF resp.type = "none"
    THEN "Error de conexión"       \* response.json() rejects: the catch block
    ELSE OrStr(resp.detail, "Error al guardar producto")

\* The submit handler after its fetch settled with resp: the catch block,
\* the response.ok branch, or on to await response.json().
saveProductThen(r, resp) ==
    /\ IF resp.fail
       THEN /\ showMessage("Error de conexión", "error")
            /\ NoFetch(pending \ {r})
            /\ UNCHANGED modalVars
       ELSE IF Ok(resp)
       THEN /\ showMessage("Producto guardado exitosamente", "success")
            /\ closeProductModal
            /\ loadProducts(pending \ {r})
       ELSE /\ AwaitJson(r, resp)
            /\ UNCHANGED <<modalVars, noteVars>>
    /\ UNCHANGED <<sessionVars, productsList, applied, tabVars, configForm>>

\* The failure branch calling loadProducts() after its showMessage.
saveProductJsonReloads(r, resp) ==
    /\ showMessage(SaveFailureMessage(resp), "error")
    /\ loadProducts(pending \ {r})
    /\ UNCHANGED <<sessionVars, modalVars, productsList, applied, tabVars,
                   configForm>>

\* The submit handler after the response.json() of a non-2xx resp settled.
saveProductJson(r, resp) ==
    /\ showMessage(SaveFailureMessage(resp), "error")
    /\ NoFetch(pending \ {r})
    /\ UNCHANGED <<sessionVars, modalVars, productsList, applied, tabVars,
                   configForm>>


\* ------------------------------------------------------------ edit product
\* async function editProduct(id), up to its await fetch; called by the
\* Editar button of a rendered card.
EditClick(id) ==
    /\ pc = "ready" /\ ~unloaded
    /\ id \in EditButtons
    /\ LET req == Request("editProduct", "GET", <<"api", "products">>,
                          authHeaders, id, NoFormData)
       IN /\ Fetch(pending, req)
          /\ last' = Event("editClick", req, NetFail, id)
    /\ UNCHANGED <<pc, sessionVars, unloaded, modalVars, productsList, tabVars,
                   configForm, noteVars, applied>>

\* products.find(p => p.id === id): the first match, or <<>> for undefined
Find(products, id) ==
    LET hits == {i \in DOMAIN products : products[i].id = id}
    IN IF hits = {} THEN <<>>
       ELSE <<products[CHOOSE i \in hits : \A j \in hits : i <= j]>>

\* OpenEdit without the line productImage.required = false.
OpenEditKeepsRequired(id, product) ==
    /\ currentEditId' = id
    /\ modalTitle' = "Editar Producto"
    /\ form' = [productId |-> IdStr(id),
                productName |-> product.name,
                productDescription |-> OrStr(product.description, ""),
                productPrice |-> IF TruthyNum(product.price) THEN product.price
                                 ELSE null]
    /\ imagePreview' = IF TruthyStr(product.image)
                       THEN [src |-> DataUrl(product.image), display |-> "block"]
                       ELSE imagePreview
    /\ modalActive' = TRUE
    /\ UNCHANGED <<imageRequired, imageFile, readers>>

\* The body of `if (product) {...}` in editProduct.
OpenEdit(id, product) ==
    /\ currentEditId' = id
    /\ modalTitle' = "Editar Producto"
    /\ form' = [productId |-> IdStr(id),
                productName |-> product.name,
                productDescription |-> OrStr(product.description, ""),
                productPrice |-> IF TruthyNum(product.price) THEN product.price
                                 ELSE null]
    /\ imageRequired' = FALSE
    /\ imagePreview' = IF TruthyStr(product.image)
                       THEN [src |-> DataUrl(product.image), display |-> "block"]
                       ELSE imagePreview
    /\ modalActive' = TRUE
    /\ UNCHANGED <<imageFile, readers>>

\* editProduct after its fetch settled with resp: the catch block, or on
\* to await response.json() (there is no status check).
editProductThen(r, resp) ==
    /\ IF resp.fail
       THEN /\ NoFetch(pending \ {r})
            /\ showMessage("Error al cargar producto", "error")
       ELSE /\ AwaitJson(r, resp)
            /\ UNCHANGED noteVars
    /\ UNCHANGED <<sessionVars, modalVars, productsList, applied, tabVars,
                   configForm>>

\* editProduct reporting a product it did not find as a load error.
editProductJsonReportsMissing(r, resp) ==
    /\ NoFetch(pending \ {r})
    /\ IF resp.type # "array"
       THEN /\ showMessage("Error al cargar producto", "error")
            /\ UNCHANGED <<modalVars, applied>>
       ELSE LET found == Find(resp.items, r.id)
            IN IF found # <<>>
               THEN /\ OpenEdit(r.id, found[1])
                    /\ applied' = [applied EXCEPT !.edit = Max(@, r.seq)]
                    /\ UNCHANGED noteVars
               ELSE /\ showMessage("Error al cargar producto", "error")
                    /\ UNCHANGED <<modalVars, applied>>
    /\ UNCHANGED <<sessionVars, productsList, tabVars, configForm>>

\* editProduct after its response.json() settled with the body of resp.
editProductJson(r, resp) ==
    /\ NoFetch(pending \ {r})
    /\ IF resp.type # "array"
       THEN \* response.json() rejects, or products.find is not a function
            /\ showMessage("Error al cargar producto", "error")
            /\ UNCHANGED <<modalVars, applied>>
       ELSE /\ UNCHANGED noteVars
            /\ LET found == Find(resp.items, r.id)
               IN IF found # <<>>
                  THEN /\ OpenEdit(r.id, found[1])
                       /\ applied' = [applied EXCEPT !.edit = Max(@, r.seq)]
                  ELSE UNCHANGED <<modalVars, applied>>
    /\ UNCHANGED <<sessionVars, productsList, tabVars, configForm>>

\* ---------------------------------------------------------- delete product
\* deleteProduct without the confirm() test: the request is sent either way.
DeleteClickIgnoresConfirm(id, ok) ==
    /\ pc = "ready" /\ ~unloaded
    /\ id \in DeleteButtons
    /\ LET req == Request("deleteProduct", "DELETE",
                          <<"api", "products", IdStr(id)>>, authHeaders,
                          id, NoFormData)
       IN /\ Fetch(pending, req)
          /\ last' = Event(IF ok THEN "deleteConfirmed" ELSE "deleteDeclined",
                           IF ok THEN req ELSE NoReq, NetFail, id)
    /\ UNCHANGED <<pc, sessionVars, unloaded, modalVars, productsList, tabVars,
                   configForm, noteVars, applied>>

\* async function deleteProduct(id), up to its await fetch; called by the
\* Eliminar button of a rendered card.  ok: the answer to confirm().
DeleteClick(id, ok) ==
    /\ pc = "ready" /\ ~unloaded
    /\ id \in DeleteButtons
    /\ IF ok
       THEN LET req == Request("deleteProduct", "DELETE",
                               <<"api", "products", IdStr(id)>>, authHeaders,
                               id, NoFormData)
            IN /\ Fetch(pending, req)
               /\ last' = Event("deleteConfirmed", req, NetFail, id)
       ELSE /\ NoFetch(pending)
            /\ last' = Event("deleteDeclined", NoReq, NetFail, id)
    /\ UNCHANGED <<pc, sessionVars, unloaded, modalVars, productsList, tabVars,
                   configForm, noteVars, applied>>

\* deleteProduct after its fetch settled with resp.
deleteProductThen(r, resp) ==
    /\ IF resp.fail
       THEN /\ showMessage("Error de conexión", "error")
            /\ NoFetch(pending \ {r})
       ELSE IF Ok(resp)
       THEN /\ showMessage("Producto eliminado exitosamente", "success")
            /\ loadProducts(pending \ {r})
       ELSE /\ showMessage("Error al eliminar producto", "error")
            /\ NoFetch(pending \ {r})
    /\ UNCHANGED <<sessionVars, modalVars, productsList, applied, tabVars,
                   configForm>>


\* ---------------------------------------------------------- configuration
\* loadConfig passing { headers: authHeaders } like the other requests.
loadConfigWithAuth(rest) ==
    Fetch(rest, Request("loadConfig", "GET", <<"api", "config">>, authHeaders,
                        null, NoFormData))

\* async function loadConfig(), up to its await fetch (no headers)
loadConfig(rest) ==
    Fetch(rest, Request("loadConfig", "GET", <<"api", "config">>, NoHeaders,
                        null, NoFormData))

\* loadConfig after its fetch settled with resp: the catch block, or on
\* to await response.json().
loadConfigThen(r, resp) ==
    /\ IF resp.fail
       THEN /\ NoFetch(pending \ {r})
            /\ showMessage("Error al cargar configuración", "error")
       ELSE /\ AwaitJson(r, resp)
            /\ UNCHANGED noteVars
    /\ UNCHANGED <<sessionVars, modalVars, productsList, applied, tabVars,
                   configForm>>

\* loadConfig after its response.json() settled with the body of resp.
loadConfigJson(r, resp) ==
    /\ NoFetch(pending \ {r})
    /\ IF resp.type = "none"
       THEN /\ showMessage("Error al cargar configuración", "error")
            /\ UNCHANGED configForm
       ELSE /\ configForm' =
                 [primaryColor |-> resp.cfg.primary_color,
                  backgroundColor |-> resp.cfg.background_color,
                  productBgColor |-> resp.cfg.product_bg_color,
                  whatsappNumber |-> OrStr(resp.cfg.whatsapp_number, "")]
            /\ UNCHANGED noteVars
    /\ UNCHANGED <<sessionVars, modalVars, productsList, applied, tabVars>>

\* configForm submit handler, up to its await fetch
ConfigSubmit ==
    /\ pc = "ready" /\ ~unloaded
    /\ LET req == Request("saveConfig", "PUT", <<"api", "config">>,
                          authHeaders \o <<"Content-Type", "application/json">>,
                          null, NoFormData)
       IN /\ Fetch(pending, req)
          /\ last' = Event("configSubmit", req, NetFail, null)
    /\ UNCHANGED <<pc, sessionVars, unloaded, modalVars, productsList, tabVars,
                   configForm, noteVars, applied>>

\* The config submit handler sending its PUT again after a failure.
saveConfigThenRetries(r, resp) ==
    /\ IF resp.fail \/ ~Ok(resp)
       THEN Fetch(pending \ {r}, [r EXCEPT !.seq = nSent + 1])
       ELSE NoFetch(pending \ {r})
    /\ IF resp.fail
       THEN showMessage("Error de conexión", "error")
       ELSE IF Ok(resp)
       THEN showMessage("Configuración guardada exitosamente", "success")
       ELSE showMessage("Error al guardar configuración", "error")
    /\ UNCHANGED <<sessionVars, modalVars, productsList, applied, tabVars,
                   configForm>>

\* the config submit handler after its fetch settled with resp.
saveConfigThen(r, resp) ==
    /\ NoFetch(pending \ {r})
    /\ IF resp.fail
       THEN showMessage("Error de conexión", "error")
       ELSE IF Ok(resp)
       THEN showMessage("Configuración guardada exitosamente", "success")
       ELSE showMessage("Error al guardar configuración", "error")
    /\ UNCHANGED <<sessionVars, modalVars, productsList, applied, tabVars,
                   configForm>>

\* ------------------------------------------------------------------- tabs
TabNames == {"products", "config"}

\* The .tab-btn elements in document order, by data-tab.
TabButtons == <<"products", "config">>
TabIndex(tabName) == CHOOSE i \in DOMAIN TabButtons : TabButtons[i] = tabName

\* The tab whose button and panel carry 'active' in the page as served.
InitialTab == "products"

\* The click handler without the two loops that remove 'active'.
TabClickKeepsOthers(tabName) ==
    /\ pc = "ready" /\ ~unloaded
    /\ activeBtns' = activeBtns \cup {tabName}
    /\ activeTabs' = activeTabs \cup {tabName}
    /\ IF tabName = "products" THEN loadProducts(pending)
       ELSE IF tabName = "config" THEN loadConfig(pending)
       ELSE NoFetch(pending)
    /\ last' = Event("tabClick", NoReq, NetFail, TabIndex(tabName))
    /\ UNCHANGED <<pc, sessionVars, unloaded, modalVars, productsList,
                   configForm, noteVars, applied>>

\* The click handler loading only when the clicked tab was not active.
TabClickSkipsActive(tabName) ==
    /\ pc = "ready" /\ ~unloaded
    /\ activeBtns' = {tabName}
    /\ activeTabs' = {tabName}
    /\ IF tabName \in activeBtns THEN NoFetch(pending)
       ELSE IF tabName = "products" THEN loadProducts(pending)
       ELSE IF tabName = "config" THEN loadConfig(pending)
       ELSE NoFetch(pending)
    /\ last' = Event("tabClick", NoReq, NetFail, TabIndex(tabName))
    /\ UNCHANGED <<pc, sessionVars, unloaded, modalVars, productsList,
                   configForm, noteVars, applied>>

\* click handler of the .tab-btn with data-tab = tabName
TabClick(tabName) ==
    /\ pc = "ready" /\ ~unloaded
    /\ activeBtns' = {tabName}
    /\ activeTabs' = {tabName}
    /\ IF tabName = "products" THEN loadProducts(pending)
       ELSE IF tabName = "config" THEN loadConfig(pending)
       ELSE NoFetch(pending)
    /\ last' = Event("tabClick", NoReq, NetFail, TabIndex(tabName))
    /\ UNCHANGED <<pc, sessionVars, unloaded, modalVars, productsList,
                   configForm, noteVars, applied>>

\* ---------------------------------------------------------------- session
\* logoutBtn click handler
LogoutClick ==
    /\ pc = "ready" /\ ~unloaded
    /\ storedToken' = NoStr
    /\ href' = "/login"
    /\ last' = Event("logoutClick", NoReq, NetFail, null)
    /\ UNCHANGED <<pc, token, unloaded, modalVars, productsList, tabVars,
                   configForm, noteVars, pending, nSent, applied>>

\* The navigation started by window.location.href = '/login' completes: the
\* page, its timers and its pending callbacks are gone.
Unload ==
    /\ pc = "ready" /\ ~unloaded
    /\ href = "/login"
    /\ unloaded' = TRUE
    /\ last' = Event("unload", NoReq, NetFail, null)
    /\ UNCHANGED <<pc, sessionVars, modalVars, productsList, tabVars,
                   configForm, noteVars, pending, nSent, applied>>

\* The script's top level: lines 4-7 read the token and redirect without
\* one, then execution goes on to the handler registrations and the final
\* loadProducts() call.
ScriptLoad ==
    /\ pc = "load"
    /\ pc' = "ready"
    /\ token' = storedToken
    /\ href' = IF storedToken = NoStr \/ storedToken = "" THEN "/login" ELSE href
    /\ currentEditId' = null
    /\ Fetch(pending, Request("loadProducts", "GET", <<"api", "products">>,
                              AuthHeadersOf(storedToken), null, NoFormData))
    /\ last' = Event("scriptLoad", NoReq, NetFail, null)
    /\ UNCHANGED <<storedToken, unloaded, modalActive, modalTitle, form,
                   imageRequired, imageFile, imagePreview, readers, productsList,
                   tabVars, configForm, noteVars, applied>>

\* ------------------------------------------------------------- responses
\* The continuation of `await fetch` of each handler.
Then(r, resp) ==
    CASE r.kind = "loadProducts" -> loadProductsThen(r, resp)
      [] r.kind = "editProduct" -> editProductThen(r, resp)
      [] r.kind = "saveProduct" -> saveProductThen(r, resp)
      [] r.kind = "deleteProduct" -> deleteProductThen(r, resp)
      [] r.kind = "loadConfig" -> loadConfigThen(r, resp)
      [] r.kind = "saveConfig" -> saveConfigThen(r, resp)

\* The continuation of `await response.json()` of the handlers that have
\* one: deleteProduct and the config save never read the body.
ThenJson(r, resp) ==
    CASE r.kind = "loadProducts" -> loadProductsJson(r, resp)
      [] r.kind = "editProduct" -> editProductJson(r, resp)
      [] r.kind = "saveProduct" -> saveProductJson(r, resp)
      [] r.kind = "loadConfig" -> loadConfigJson(r, resp)

\* The handler of r, resumed with resp, goes on to await response.json().
ReadsBody(r, resp) ==
    /\ ~resp.fail
    /\ \/ r.kind \in {"editProduct", "loadConfig"}
       \/ r.kind = "loadProducts" /\ resp.status # 401
       \/ r.kind = "saveProduct" /\ ~Ok(resp)

\* What a handler holds of resp before its body is read.
Unread(resp) ==
    [resp EXCEPT !.type = "unread", !.items = <<>>, !.detail = NoStr,
                 !.cfg = NoConfig]

\* A fetch in flight settles, in any order, and its handler resumes up to
\* its end or to its await response.json().
ResponseArrives ==
    /\ pc = "ready" /\ ~unloaded
    /\ \E r \in pending : \E resp \in Responses(r.kind) :
          /\ r.status = 0
          /\ Then(r, resp)
          /\ last' = IF ReadsBody(r, resp)
                     THEN Event("fetched", r, Unread(resp), null)
                     ELSE Event("response", r, resp, null)
    /\ UNCHANGED <<pc, unloaded>>

\* The response.json() of a resolved fetch settles (with the parsed body,
\* or rejected), in any order, and its handler resumes to its end.
BodyArrives ==
    /\ pc = "ready" /\ ~unloaded
    /\ \E r \in pending : \E resp \in Responses(r.kind) :
          /\ r.status # 0
          /\ ~resp.fail /\ resp.status = r.status
          /\ ThenJson(r, resp)
          /\ last' = Event("response", r, resp, null)
    /\ UNCHANGED <<pc, unloaded>>

\* ------------------------------------------------------------------- spec
Tokens == {NoStr, "tok"}

Init ==
    /\ pc = "load"
    /\ storedToken \in Tokens
    /\ token = NoStr
    /\ href = "/dashboard"
    /\ unloaded = FALSE
    /\ currentEditId = null
    /\ modalActive = FALSE
    /\ modalTitle = ""
    /\ form = EmptyForm
    /\ imageRequired = FALSE
    /\ imageFile = FALSE
    /\ imagePreview = [src |-> <<>>, display |-> "none"]
    /\ readers = 0
    /\ productsList = [placeholder |-> FALSE, cards |-> <<>>]
    /\ activeBtns = {InitialTab}
    /\ activeTabs = {InitialTab}
    /\ configForm = [primaryColor |-> "", backgroundColor |-> "",
                     productBgColor |-> "", whatsappNumber |-> ""]
    /\ message = [text |-> "", className |-> "message"]
    /\ timers = <<>>
    /\ pending = {}
    /\ nSent = 0
    /\ applied = [list |-> 0, edit |-> 0]
    /\ last = Event("none", NoReq, NetFail, null)

Next ==
    \/ ScriptLoad
    \/ AddClick
    \/ CloseClick
    \/ BackdropClick
    \/ ProductSubmit
    \/ \E id \in Ids : EditClick(id)
    \/ \E id \in Ids, ok \in BOOLEAN : DeleteClick(id, ok)
    \/ \E t \in TabNames : TabClick(t)
    \/ ConfigSubmit
    \/ LogoutClick
    \/ Unload
    \/ ResponseArrives
    \/ BodyArrives
    \/ \E f \in BOOLEAN : ImageChange(f)
    \/ ReaderLoads
    \/ Tick
    \/ TimerFires

Spec == Init /\ [][Next]_vars

\* The product modal and the product form alone.  The handlers left out
\* (tabs, delete, configuration, logout, file chooser, timers) write none of
\* currentEditId, modalActive, form, imageRequired.
ModalNext ==
    \/ ScriptLoad
    \/ AddClick
    \/ CloseClick
    \/ BackdropClick
    \/ ProductSubmit
    \/ \E id \in Ids : EditClick(id)
    \/ ResponseArrives
    \/ BodyArrives

ModalSpec == Init /\ [][ModalNext]_vars

\* The product list, delete, tabs and configuration, without the modal.
CrudNext ==
    \/ ScriptLoad
    \/ \E id \in Ids, ok \in BOOLEAN : DeleteClick(id, ok)
    \/ \E t \in TabNames : TabClick(t)
    \/ ConfigSubmit
    \/ ResponseArrives
    \/ BodyArrives

CrudSpec == Init /\ [][CrudNext]_vars

\* The notification banner under the passage of time; the messages come from
\* the responses to configuration saves and list loads.  A navigation to
\* /login (no token at load, a 401 to the list load, the logout button) may
\* replace the page while timers are pending.
NotifyNext ==
    \/ ScriptLoad
    \/ ConfigSubmit
    \/ LogoutClick
    \/ Unload
    \/ ResponseArrives
    \/ BodyArrives
    \/ Tick
    \/ TimerFires

NotifySpec == Init /\ [][NotifyNext]_vars

\* Time passes and due timer callbacks run: the event loop never stalls
\* while the page is loaded (both are disabled once it is replaced).
NotifyLiveSpec == NotifySpec /\ WF_vars(Tick) /\ WF_vars(TimerFires)


\* Every handler that sends a request; the modal is opened only by
\* editProduct.
RequestNext ==
    \/ ScriptLoad
    \/ ProductSubmit
    \/ \E id \in Ids : EditClick(id)
    \/ \E id \in Ids, ok \in BOOLEAN : DeleteClick(id, ok)
    \/ \E t \in TabNames : TabClick(t)
    \/ ConfigSubmit
    \/ ResponseArrives
    \/ BodyArrives

RequestSpec == Init /\ [][RequestNext]_vars


\* ================================================================= claims
\* The handler that ran last was that of a request of `kind` whose fetch
\* resolved (with any status), run to its end: after the fetch when it
\* does not read the body, after response.json() when it does.
Answered(kind) ==
    last.op = "response" /\ last.req.kind = kind /\ ~last.resp.fail

\* The request carries the Authorization header.
Authenticated(req) == Len(req.headers) >= 1 /\ req.headers[1] = "Authorization"

\* C1: whenever the product modal is closed, currentEditId is null.
ClosedModalHasNoEditId ==
    (pc = "ready" /\ ~modalActive) => currentEditId = null

\* C2: a run that started without a token redirects to /login and sends no
\* request at all.
NoTokenNoRequest ==
    (pc = "ready" /\ token = NoStr) => (href = "/login" /\ nSent = 0)

\* C3: a 401 response to any request sent with the Authorization header
\* removes the stored token and redirects to /login, and shows no
\* notification.
UnauthorizedLogsOut ==
    [][(/\ last'.op = "response"
        /\ ~last'.resp.fail
        /\ last'.resp.status = 401
        /\ Authenticated(last'.req))
       => (/\ storedToken' = NoStr
           /\ href' = "/login"
           /\ message' = message)]_vars

\* C4: a submit sends exactly one request: POST /api/products when
\* currentEditId is null, PUT /api/products/{id} when it is an id (0 included).
SubmitTargetsEditId ==
    [][last'.op = "productSubmit"
       => (/\ nSent' = nSent + 1
           /\ \E r \in pending' :
                /\ pending' = pending \cup {r}
                /\ r.seq = nSent'
                /\ r = last'.req
                /\ IF currentEditId = null
                   THEN r.method = "POST" /\ r.url = <<"api", "products">>
                   ELSE /\ r.method = "PUT"
                        /\ r.url = <<"api", "products", IdStr(currentEditId)>>)]_vars

\* C5: after a non-2xx save response the error notification shows the body's
\* detail when it has a non-empty one, and otherwise (no detail, or no JSON
\* body) the generic 'Error al guardar producto'.
SaveFailureShowsDetailOrGeneric ==
    (Answered("saveProduct") /\ ~Ok(last.resp))
    => (/\ message.className = "message error"
        /\ message.text = IF last.resp.type # "none" /\ TruthyStr(last.resp.detail)
                          THEN last.resp.detail
                          ELSE "Error al guardar producto")


\* The product the last editProduct response holds for the id it was called
\* with, as a sequence of at most one element.
EditedProduct ==
    IF Answered("editProduct") /\ last.resp.type = "array"
    THEN SelectSeq(last.resp.items, LAMBDA p : p.id = last.req.id)
    ELSE <<>>

\* C6: the add button opens the modal with productImage.required true;
\* editProduct with a matching product opens it with required false and the
\* product's name, description and price in the form; and whenever the modal
\* is open, required is true exactly when currentEditId is null.
ImageRequiredIffCreate ==
    /\ modalActive => (imageRequired <=> currentEditId = null)
    /\ last.op = "addClick"
         => (modalActive /\ imageRequired /\ currentEditId = null)
    /\ EditedProduct # <<>>
         => LET p == EditedProduct[1]
            IN /\ modalActive /\ ~imageRequired
               /\ currentEditId = last.req.id
               /\ form.productName = p.name
               /\ form.productDescription =
                     (IF p.description = NoStr THEN "" ELSE p.description)
               /\ form.productPrice =
                     (IF p.price = null \/ p.price = 0 THEN null ELSE p.price)

\* C6 witness: an editProduct response has just opened the modal for
\* product 0: an edit session, image optional.
EditOpenedModal ==
    /\ EditedProduct # <<>>
    /\ modalActive /\ ~imageRequired /\ currentEditId = 0

\* C7: no response is dropped for being superseded: the list rendered is
\* that of the list response that arrived (was read) last, and the edit id
\* and form are those of the editProduct response that arrived last, also
\* when a request issued later was answered before it.
LastArrivalWins ==
    /\ (Answered("loadProducts") /\ last.resp.status # 401
          /\ last.resp.type = "array")
         => productsList = RenderList(last.resp.items)
    /\ EditedProduct # <<>>
         => /\ currentEditId = last.req.id
            /\ form.productId = IdStr(last.req.id)
            /\ form.productName = EditedProduct[1].name

\* C7 witness: the list on the page is that of a request older than one
\* whose response was rendered before.
StaleListOverwrote ==
    /\ Answered("loadProducts") /\ last.resp.type = "array"
    /\ last.resp.status # 401
    /\ last.req.seq < applied.list
    /\ productsList = RenderList(last.resp.items)

\* C8 as stated: each message shown schedules one clear 4000 ms later and
\* cancels none; a timer that falls due resets the banner's class whatever
\* message it shows, also when that message's own timer has time left; and
\* a banner with a style class is eventually reset to plain 'message'.
BannerClears ==
    /\ [][(message' # message /\ message'.className # "message")
             => timers' = Append(timers, Delay)]_vars
    /\ [][Len(timers') < Len(timers)
             => (/\ last'.op = "timer"
                 /\ Head(timers) = 0
                 /\ timers' = Tail(timers))]_vars
    /\ [][last'.op = "timer"
             => (/\ message'.className = "message"
                 /\ message'.text = message.text)]_vars
    /\ (message.className # "message") ~> (message.className = "message")

\* C8 amended: the same scheduling and clearing, and a banner with a style
\* class is eventually reset to plain 'message' unless the navigation to
\* /login replaces the page first, taking its pending timers with it.
BannerClearsWhileLoaded ==
    /\ [][(message' # message /\ message'.className # "message")
             => timers' = Append(timers, Delay)]_vars
    /\ [][Len(timers') < Len(timers)
             => (/\ last'.op = "timer"
                 /\ Head(timers) = 0
                 /\ timers' = Tail(timers))]_vars
    /\ [][last'.op = "timer"
             => (/\ message'.className = "message"
                 /\ message'.text = message.text)]_vars
    /\ [][unloaded' => (message' = message /\ timers' = timers)]_vars
    /\ (message.className # "message")
         ~> (message.className = "message" \/ unloaded)

\* C8 witness: the first message's timer has reset the banner while the
\* timer of the message on display still has time left.
ClearedEarly ==
    /\ last.op = "timer"
    /\ message.className = "message"
    /\ timers # <<>>
    /\ timers[Len(timers)] > 0

\* The step sent exactly one request, a list load, besides settling `done`.
OneListReload(done) ==
    /\ nSent' = nSent + 1
    /\ \E q \in pending' :
         /\ pending' = (pending \ {done}) \cup {q}
         /\ q \notin pending
         /\ q.seq = nSent'
         /\ q.method = "GET" /\ q.url = <<"api", "products">>

\* The step settled `done` and sent nothing.
NoReload(done) ==
    /\ nSent' = nSent
    /\ pending' = pending \ {done}

\* C9: a 2xx save response closes the modal and sends exactly one list
\* reload; a non-2xx response or a failed request leaves the modal and
\* currentEditId as they are and sends nothing.
SaveOutcome ==
    /\ [][(last'.op = "response" /\ last'.req.kind = "saveProduct")
           => IF ~last'.resp.fail /\ Ok(last'.resp)
              THEN ~modalActive' /\ OneListReload(last'.req)
              ELSE /\ modalActive' = modalActive
                   /\ currentEditId' = currentEditId
                   /\ NoReload(last'.req)]_vars
    /\ [][(last'.op = "fetched" /\ last'.req.kind = "saveProduct")
           => /\ ~Ok(last'.resp)
              /\ modalActive' = modalActive
              /\ currentEditId' = currentEditId
              /\ nSent' = nSent]_vars

\* C9 witness: a save was answered 2xx, the modal is closed and the reload
\* is in flight.
SavedAndReloading ==
    /\ Answered("saveProduct") /\ Ok(last.resp)
    /\ ~modalActive
    /\ \E q \in pending : q.seq = nSent /\ q.kind = "loadProducts"
                          /\ q.seq > last.req.seq

\* every variable but `last`
pageVars == <<pc, storedToken, token, href, unloaded, currentEditId,
              modalActive, modalTitle, form, imageRequired, imageFile,
              imagePreview, readers, productsList, activeBtns, activeTabs,
              configForm, message, timers, pending, nSent, applied>>

\* C10: a declined deleteProduct changes nothing and sends nothing; an
\* accepted one sends exactly one DELETE /api/products/{id}; its 2xx response
\* shows the success notification and sends one list reload, its non-2xx
\* response shows 'Error al eliminar producto' and sends nothing.
DeleteOutcome ==
    [][/\ last'.op = "deleteDeclined" => pageVars' = pageVars
       /\ last'.op = "deleteConfirmed"
            => /\ nSent' = nSent + 1
               /\ \E q \in pending' :
                    /\ pending' = pending \cup {q}
                    /\ q \notin pending
                    /\ q.seq = nSent'
                    /\ q.method = "DELETE"
                    /\ q.url = <<"api", "products", IdStr(last'.arg)>>
       /\ (last'.op = "response" /\ last'.req.kind = "deleteProduct"
             /\ ~last'.resp.fail)
            => IF Ok(last'.resp)
               THEN /\ message' = [text |-> "Producto eliminado exitosamente",
                                   className |-> "message success"]
                    /\ OneListReload(last'.req)
               ELSE /\ message' = [text |-> "Error al eliminar producto",
                                   className |-> "message error"]
                    /\ NoReload(last'.req)]_vars

\* C10 witness: a delete was answered 2xx, the success notification is up
\* and the reload is in flight.
DeletedAndReloading ==
    /\ Answered("deleteProduct") /\ Ok(last.resp)
    /\ message.text = "Producto eliminado exitosamente"
    /\ \E q \in pending : q.seq = nSent /\ q.kind = "loadProducts"
                          /\ q.seq > last.req.seq


\* C11: after any rejected fetch the error notification reads
\* 'Error de conexión'.
RejectedFetchShowsConnectionError ==
    (last.op = "response" /\ last.resp.fail)
    => message = [text |-> "Error de conexión", className |-> "message error"]


\* C12: in every state exactly one tab button and exactly one tab panel
\* carry 'active', both of the same tab; a click makes it the clicked tab,
\* and nothing but a click changes it.
ExactlyOneTabActive ==
    /\ [](/\ Cardinality(activeBtns) = 1
          /\ Cardinality(activeTabs) = 1
          /\ activeBtns = activeTabs
          /\ activeBtns \subseteq TabNames)
    /\ [][last'.op = "tabClick"
            => (/\ activeBtns' = {TabButtons[last'.arg]}
                /\ activeTabs' = {TabButtons[last'.arg]})]_vars
    /\ [][last'.op # "tabClick"
            => (activeBtns' = activeBtns /\ activeTabs' = activeTabs)]_vars

\* C12 witness: a click on the config tab has moved 'active' from the
\* products tab to it.
ConfigTabActivated ==
    /\ last.op = "tabClick"
    /\ activeBtns = {"config"} /\ activeTabs = {"config"}


\* The data a tab loads when activated.
TabLoad(tabName) ==
    IF tabName = "products"
    THEN [kind |-> "loadProducts", method |-> "GET", url |-> <<"api", "products">>]
    ELSE [kind |-> "loadConfig", method |-> "GET", url |-> <<"api", "config">>]

\* C13: each click on a tab button sends exactly one new request, the GET
\* of that tab's data, whether or not the tab was already active or an
\* earlier load of it is still in flight; no request in flight is dropped.
TabClickLoadsOnce ==
    [][last'.op = "tabClick"
        => /\ nSent' = nSent + 1
           /\ pending \subseteq pending'
           /\ Cardinality(pending' \ pending) = 1
           /\ \A q \in pending' \ pending :
                /\ q.seq = nSent'
                /\ q.kind = TabLoad(TabButtons[last'.arg]).kind
                /\ q.method = "GET"
                /\ q.url = TabLoad(TabButtons[last'.arg]).url]_vars

\* C13 witness: the already active products tab was clicked while a list
\* load was in flight, and two list loads are now in flight.
ActiveTabClickedDuringLoad ==
    /\ last.op = "tabClick" /\ TabButtons[last.arg] = "products"
    /\ \E q1, q2 \in pending :
         /\ q1.kind = "loadProducts" /\ q2.kind = "loadProducts"
         /\ q1.seq < q2.seq /\ q2.seq = nSent
    /\ applied.list = 0


\* C14: after a list load answered with an empty array the list shows the
\* placeholder and no card; after one answered with n > 0 products it
\* shows n cards, the i-th of the i-th product, and no placeholder,
\* whatever it showed before.
ListShowsExactlyTheResponse ==
    (Answered("loadProducts") /\ last.resp.type = "array")
    => IF Len(last.resp.items) = 0
       THEN productsList.placeholder /\ productsList.cards = <<>>
       ELSE /\ ~productsList.placeholder
            /\ Len(productsList.cards) = Len(last.resp.items)
            /\ \A i \in DOMAIN productsList.cards :
                 /\ productsList.cards[i].editId = last.resp.items[i].id
                 /\ productsList.cards[i].name = last.resp.items[i].name

\* C14 witness: an empty list arrived while the delete of a product that
\* was shown on a card is in flight; the placeholder replaced the cards.
EmptyListReplacedCards ==
    /\ Answered("loadProducts") /\ last.resp.type = "array"
    /\ last.resp.items = <<>>
    /\ productsList.placeholder
    /\ \E q \in pending : q.kind = "deleteProduct"


\* The handlers a user action starts with a fetch.
UserActions ==
    {"tabClick", "productSubmit", "editClick", "deleteConfirmed", "configSubmit"}

\* C15: a user action sends exactly one request and keeps the others in
\* flight; when a fetch settles its handler runs to its end, or to the
\* reading of the body and from there to its end, and the request is then
\* no longer awaited; after a failure (rejected fetch or non-2xx status)
\* nothing is sent, and after a success at most one request (the list
\* reload) is.
NoRetries ==
    /\ [][last'.op \in UserActions
            => /\ nSent' = nSent + 1
               /\ pending \subseteq pending'
               /\ Cardinality(pending' \ pending) = 1]_vars
    /\ [][last'.op = "fetched"
            => /\ last'.req \in pending /\ last'.req.status = 0
               /\ nSent' = nSent
               /\ pending' = (pending \ {last'.req})
                     \cup {[last'.req EXCEPT !.status = last'.resp.status]}]_vars
    /\ [][last'.op = "response"
            => /\ last'.req \in pending /\ last'.req \notin pending'
               /\ pending \ {last'.req} \subseteq pending'
               /\ nSent' \in {nSent, nSent + 1}
               /\ (last'.resp.fail \/ ~Ok(last'.resp))
                  => (nSent' = nSent /\ pending' = pending \ {last'.req})]_vars

\* C15 witness: a config save failed with a non-2xx status, its handler
\* showed the error and no request is in flight or was sent after it.
FailedSaveNotResent ==
    /\ last.op = "response" /\ last.req.kind = "saveConfig"
    /\ ~last.resp.fail /\ ~Ok(last.resp)
    /\ message.text = "Error al guardar configuración"
    /\ pending = {} /\ nSent = last.req.seq


\* C16: of the requests sent, GET api/config, and only it, has no headers;
\* every other request carries Authorization: Bearer <token>, the token
\* being the one read from localStorage when the script loaded, also
\* after localStorage lost it.
OnlyConfigLoadUnauthenticated ==
    \A q \in pending :
        /\ (q.headers = NoHeaders) <=> (q.method = "GET" /\ q.url = <<"api", "config">>)
        /\ (q.headers # NoHeaders)
           => /\ Len(q.headers) >= 3
              /\ SubSeq(q.headers, 1, 3) = AuthHeadersOf(token)
              /\ q.headers[3] = (IF token = NoStr THEN "null" ELSE token)

\* C16 witness: a 401 to the list load removed the token from
\* localStorage; the config load then sent goes without headers and the
\* config save with the token read at load time.
BothKindsInFlight ==
    /\ token = "tok" /\ storedToken = NoStr
    /\ \E q \in pending : q.kind = "loadConfig" /\ q.headers = NoHeaders
    /\ \E q \in pending :
         /\ q.kind = "saveConfig" /\ q.method = "PUT"
         /\ SubSeq(q.headers, 1, 3) = <<"Authorization", "Bearer", "tok">>


\* C17: right after editProduct found its product and opened the modal,
\* the preview is displayed iff that product has an image, and a displayed
\* preview shows that product's image.
PreviewIffEditedProductHasImage ==
    EditedProduct # <<>>
    => /\ modalActive
       /\ (imagePreview.display = "block") <=> TruthyStr(EditedProduct[1].image)
       /\ (imagePreview.display = "block")
          => imagePreview.src = DataUrl(EditedProduct[1].image)


\* C18: whenever the modal is open, the hidden productId field is "" if
\* currentEditId is null and the id's string form otherwise.
ProductIdFieldAgrees ==
    modalActive
    => form.productId = (IF currentEditId = null THEN "" ELSE IdStr(currentEditId))

\* C18 witness: the add button was clicked after an editProduct response
\* had filled the form, and the field is empty again.
AddAfterEditClearedField ==
    /\ last.op = "addClick" /\ modalActive
    /\ applied.edit > 0
    /\ currentEditId = null /\ form.productId = ""


\* C19: when the list re-fetched by editProduct(id) has no product with
\* that id, the step changes neither currentEditId, the form fields,
\* productImage.required, the preview nor the modal's open/closed state,
\* shows no notification, and sends nothing.
MissingProductChangesNothing ==
    [][(/\ last'.op = "response" /\ last'.req.kind = "editProduct"
        /\ ~last'.resp.fail /\ last'.resp.type = "array"
        /\ \A i \in DOMAIN last'.resp.items : last'.resp.items[i].id # last'.req.id)
        => /\ currentEditId' = currentEditId /\ form' = form
           /\ modalTitle' = modalTitle
           /\ imageRequired' = imageRequired /\ imagePreview' = imagePreview
           /\ modalActive' = modalActive
           /\ message' = message /\ timers' = timers
           /\ productsList' = productsList
           /\ nSent' = nSent]_vars

\* C19 witness: the modal was open on product 0 when an editProduct(1)
\* was answered with a list that no longer holds product 1; the modal is
\* still open on product 0 and no notification is shown.
MissingProductIgnored ==
    /\ last.op = "response" /\ last.req.kind = "editProduct"
    /\ last.req.id = 1
    /\ last.resp.type = "array" /\ Len(last.resp.items) = 1
    /\ last.resp.items[1].id = 0
    /\ modalActive /\ currentEditId = 0 /\ form.productId = "0"
    /\ message.text = ""

====
